---- MODULE Spec2Model ----
(***************************************************************************)
(* rusty-machine, learning::optim::grad_desc.                              *)
(*                                                                         *)
(* One call of OptimAlgorithm::optimize, for GradientDesc and for          *)
(* StochasticGD, as a state machine: the optimizer value built by `new` or *)
(* `default`, the arguments of the call, the local variables of the call   *)
(* (optimizing_val, delta_w, the loop counters), and a log of the calls    *)
(* made to Optimizable::compute_grad.                                      *)
(*                                                                         *)
(* Numbers.  An f64 is modelled exactly, as a fixed-point number: the      *)
(* integer n stands for n / Den.  Den is the denominator of the default    *)
(* step size 0.3 = 3/10, so that GradientDesc::default() is representable. *)
(* The hyper-parameters and inputs below are chosen so that every product  *)
(* the program forms is an exact multiple of 1/Den (FixedPointExact), so   *)
(* no rounding is modelled: the model is the real-number reading of the    *)
(* arithmetic.                                                             *)
(***************************************************************************)
EXTENDS Integers, Sequences, FiniteSets, TLC

VARIABLES
    ctor,            \* "new" or "default": how the optimizer was constructed
    opt,             \* the optimizer struct: [kind, alpha, iters] or [kind, alpha, mu, iters]
    start,           \* optimize's `start` argument (fixed-point vector)
    data,            \* optimize's `data` argument: sequence of rows, a row a sequence of features
    outputs,         \* optimize's `outputs` argument: one target per row
    pc,              \* position inside optimize
    optimizing_val,  \* local `optimizing_val`
    delta_w,         \* local `delta_w` (StochasticGD only)
    iter,            \* number of completed iterations of `for _ in 0..self.iters`
    i,               \* the inner loop variable `i` of StochasticGD
    log,             \* the calls made to compute_grad so far: [at, rows]
    result           \* the returned vector (<<>> until optimize returns)

vars == <<ctor, opt, start, data, outputs, pc, optimizing_val, delta_w, iter, i, log, result>>

----------------------------------------------------------------------------
(* Bounds of the explored inputs.                                          *)
MaxIters == 2
MaxRows == 3
MaxDim == 2

(* The values the inputs are drawn from (fixed-point for start and the     *)
(* hyper-parameters, plain integers for the samples: a feature value x and *)
(* its target y).                                                         *)
StartVals == {0, 10}
Samples == {[x |-> -1, y |-> 1], [x |-> 2, y |-> 1], [x |-> 2, y |-> 0]}
GDAlphas == {3, 20}
SGDAlphas == {0, 20}
SGDMus == {10, 20}

----------------------------------------------------------------------------
(* The two Default impls.                                                  *)
DefaultGradientDesc ==
    [kind |-> "GradientDesc", alpha |-> [num |-> 3, den |-> 10], iters |-> 100]

Den == DefaultGradientDesc.alpha.den

GradientDescNew(alpha, iters) ==
    [kind |-> "GradientDesc", alpha |-> alpha, iters |-> iters]

GradientDescDefault ==
    GradientDescNew(DefaultGradientDesc.alpha.num, DefaultGradientDesc.iters)

StochasticGDNew(alpha, mu, iters) ==
    [kind |-> "StochasticGD", alpha |-> alpha, mu |-> mu, iters |-> iters]

----------------------------------------------------------------------------
(* linalg::vector::Vector arithmetic: elementwise, on fixed-point values.  *)
VSub(a, b) == [j \in 1..Len(a) |-> a[j] - b[j]]

VAdd(a, b) == [j \in 1..Len(a) |-> a[j] + b[j]]

VScale(v, s) == [j \in 1..Len(v) |-> (v[j] * s) \div Den]

(* linalg::matrix::Matrix::rows and select_rows, with 0-based row indices. *)
Rows(m) == Len(m)

SelectOK(m, idx) == \A k \in 1..Len(idx) : idx[k] < Rows(m)

SelectRows(m, idx) == [k \in 1..Len(idx) |-> m[idx[k] + 1]]

AllRows(m) == [k \in 1..Rows(m) |-> k - 1]

----------------------------------------------------------------------------
(* Optimizable::compute_grad.  The model whose parameters are optimized is *)
(* least-absolute-deviation regression: cost = sum_r |p . x_r - y_r|, and  *)
(* gradient_j = sum_r sgn(p . x_r - y_r) * x_r[j].  It is deterministic,   *)
(* pure, and returns a gradient of the length of the parameters.           *)
Sgn(n) == IF n > 0 THEN 1 ELSE IF n < 0 THEN -1 ELSE 0

RECURSIVE Dot(_, _, _)
Dot(p, x, n) == IF n = 0 THEN 0 ELSE Dot(p, x, n - 1) + p[n] * x[n]

Resid(p, x, y) == Dot(p, x, Len(p)) - Den * y

RECURSIVE GradSum(_, _, _, _, _)
GradSum(p, d, t, j, r) ==
    IF r = 0 THEN 0
    ELSE GradSum(p, d, t, j, r - 1) + Sgn(Resid(p, d[r], t[r])) * d[r][j]

compute_grad(p, d, t) == [j \in 1..Len(p) |-> Den * GradSum(p, d, t, j, Len(d))]

----------------------------------------------------------------------------
Dims == 1..MaxDim

Starts(dim) == {[j \in 1..dim |-> v] : v \in StartVals}

(* A data row: the sample's feature followed by constant columns.          *)
Features(dim, xv) == [j \in 1..dim |-> IF j = 1 THEN xv ELSE 1]

Optimizers ==
    {GradientDescNew(a, n) : a \in GDAlphas, n \in 0..MaxIters}
    \cup {StochasticGDNew(a, m, n) : a \in SGDAlphas, m \in SGDMus, n \in 0..MaxIters}

Init ==
    /\ \/ ctor = "new" /\ opt \in Optimizers
       \/ ctor = "default" /\ opt = GradientDescDefault
    /\ \E dim \in Dims, n \in 0..MaxRows :
          /\ start \in Starts(dim)
          /\ \E s \in [1..n -> Samples] :
                /\ data = [k \in 1..n |-> Features(dim, s[k].x)]
                /\ outputs = [k \in 1..n |-> s[k].y]
    /\ pc = "entry"
    /\ optimizing_val = <<>>
    /\ delta_w = <<>>
    /\ iter = 0
    /\ i = 0
    /\ log = <<>>
    /\ result = <<>>

IsGD == opt.kind = "GradientDesc"
IsSGD == opt.kind = "StochasticGD"

Call(p, idx) == [at |-> p, rows |-> idx]

----------------------------------------------------------------------------
(* GradientDesc::optimize                                                  *)

(* GDBegin with a first step taken before the loop is entered.            *)
GDBegin_EagerStep ==
    /\ IsGD /\ pc = "entry"
    /\ log' = Append(log, Call(start, AllRows(data)))
    /\ optimizing_val' = VSub(start, VScale(compute_grad(start, data, outputs), opt.alpha))
    /\ iter' = 0
    /\ pc' = "gd_loop"
    /\ UNCHANGED <<ctor, opt, start, data, outputs, delta_w, i, result>>

(* GDBegin copying start[1..] instead of start.                            *)
GDBegin_Truncated ==
    /\ IsGD /\ pc = "entry"
    /\ optimizing_val' = Tail(start)
    /\ iter' = 0
    /\ pc' = "gd_loop"
    /\ UNCHANGED <<ctor, opt, start, data, outputs, delta_w, i, log, result>>

GDBegin ==
    /\ IsGD /\ pc = "entry"
    /\ optimizing_val' = start
    /\ iter' = 0
    /\ pc' = "gd_loop"
    /\ UNCHANGED <<ctor, opt, start, data, outputs, delta_w, i, log, result>>

(* GDStep evaluating the gradient at start instead of optimizing_val.     *)
GDStep_AtStart ==
    /\ IsGD /\ pc = "gd_loop" /\ iter < opt.iters
    /\ LET grad == compute_grad(start, data, outputs)
       IN  /\ log' = Append(log, Call(start, AllRows(data)))
           /\ optimizing_val' = VSub(optimizing_val, VScale(grad, opt.alpha))
    /\ iter' = iter + 1
    /\ UNCHANGED <<ctor, opt, start, data, outputs, pc, delta_w, i, result>>

GDStep ==
    /\ IsGD /\ pc = "gd_loop" /\ iter < opt.iters
    /\ LET grad == compute_grad(optimizing_val, data, outputs)
       IN  /\ log' = Append(log, Call(optimizing_val, AllRows(data)))
           /\ optimizing_val' = VSub(optimizing_val, VScale(grad, opt.alpha))
    /\ iter' = iter + 1
    /\ UNCHANGED <<ctor, opt, start, data, outputs, pc, delta_w, i, result>>

GDReturn ==
    /\ IsGD /\ pc = "gd_loop" /\ iter >= opt.iters
    /\ result' = optimizing_val
    /\ pc' = "done"
    /\ UNCHANGED <<ctor, opt, start, data, outputs, optimizing_val, delta_w, iter, i, log>>

----------------------------------------------------------------------------
(* StochasticGD::optimize                                                  *)

(* SGDSelectPanic replaced by an empty-data check that returns start.     *)
SGDSelectPanic_ReturnStart ==
    /\ IsSGD /\ pc = "entry"
    /\ ~ (SelectOK(data, <<0>>) /\ SelectOK(outputs, <<0>>))
    /\ result' = start
    /\ pc' = "done"
    /\ UNCHANGED <<ctor, opt, start, data, outputs, optimizing_val, delta_w, iter, i, log>>

SGDSelectPanic ==
    /\ IsSGD /\ pc = "entry"
    /\ ~ (SelectOK(data, <<0>>) /\ SelectOK(outputs, <<0>>))
    /\ pc' = "panicked"
    /\ UNCHANGED <<ctor, opt, start, data, outputs, optimizing_val, delta_w, iter, i, log, result>>

(* SGDBootstrap seeding the momentum with grad * mu.                      *)
SGDBootstrap_MuSeed ==
    /\ IsSGD /\ pc = "entry"
    /\ SelectOK(data, <<0>>) /\ SelectOK(outputs, <<0>>)
    /\ LET grad == compute_grad(start, SelectRows(data, <<0>>), SelectRows(outputs, <<0>>))
           dw == VScale(grad, opt.mu)
       IN  /\ log' = Append(log, Call(start, <<0>>))
           /\ delta_w' = dw
           /\ optimizing_val' = VSub(start, VScale(dw, opt.mu))
    /\ iter' = 0
    /\ pc' = "sgd_outer"
    /\ UNCHANGED <<ctor, opt, start, data, outputs, i, result>>

SGDBootstrap ==
    /\ IsSGD /\ pc = "entry"
    /\ SelectOK(data, <<0>>) /\ SelectOK(outputs, <<0>>)
    /\ LET grad == compute_grad(start, SelectRows(data, <<0>>), SelectRows(outputs, <<0>>))
           dw == VScale(grad, opt.alpha)
       IN  /\ log' = Append(log, Call(start, <<0>>))
           /\ delta_w' = dw
           /\ optimizing_val' = VSub(start, VScale(dw, opt.mu))
    /\ iter' = 0
    /\ pc' = "sgd_outer"
    /\ UNCHANGED <<ctor, opt, start, data, outputs, i, result>>

(* SGDPassBegin with the inner range starting at row 0.                   *)
SGDPassBegin_FromZero ==
    /\ IsSGD /\ pc = "sgd_outer" /\ iter < opt.iters
    /\ i' = 0
    /\ pc' = "sgd_inner"
    /\ UNCHANGED <<ctor, opt, start, data, outputs, optimizing_val, delta_w, iter, log, result>>

(* SGDPassBegin clearing the momentum at the start of every pass.          *)
SGDPassBegin_ResetMomentum ==
    /\ IsSGD /\ pc = "sgd_outer" /\ iter < opt.iters
    /\ i' = 1
    /\ delta_w' = [j \in 1..Len(delta_w) |-> 0]
    /\ pc' = "sgd_inner"
    /\ UNCHANGED <<ctor, opt, start, data, outputs, optimizing_val, iter, log, result>>

SGDPassBegin ==
    /\ IsSGD /\ pc = "sgd_outer" /\ iter < opt.iters
    /\ i' = 1
    /\ pc' = "sgd_inner"
    /\ UNCHANGED <<ctor, opt, start, data, outputs, optimizing_val, delta_w, iter, log, result>>

(* SGDRow walking the rows from the last one down.                         *)
SGDRow_Descending ==
    /\ IsSGD /\ pc = "sgd_inner" /\ i < Rows(data)
    /\ LET r == Rows(data) - i
           grad == compute_grad(optimizing_val, SelectRows(data, <<r>>), SelectRows(outputs, <<r>>))
           dw == VAdd(VScale(grad, opt.mu), VScale(delta_w, opt.alpha))
       IN  /\ log' = Append(log, Call(optimizing_val, <<r>>))
           /\ delta_w' = dw
           /\ optimizing_val' = VSub(optimizing_val, VScale(dw, opt.mu))
    /\ i' = i + 1
    /\ UNCHANGED <<ctor, opt, start, data, outputs, pc, iter, result>>

(* SGDRow stepping by delta_w * alpha instead of delta_w * mu.             *)
SGDRow_AlphaStep ==
    /\ IsSGD /\ pc = "sgd_inner" /\ i < Rows(data)
    /\ LET grad == compute_grad(optimizing_val, SelectRows(data, <<i>>), SelectRows(outputs, <<i>>))
           dw == VAdd(VScale(grad, opt.mu), VScale(delta_w, opt.alpha))
       IN  /\ log' = Append(log, Call(optimizing_val, <<i>>))
           /\ delta_w' = dw
           /\ optimizing_val' = VSub(optimizing_val, VScale(dw, opt.alpha))
    /\ i' = i + 1
    /\ UNCHANGED <<ctor, opt, start, data, outputs, pc, iter, result>>

SGDRow ==
    /\ IsSGD /\ pc = "sgd_inner" /\ i < Rows(data)
    /\ LET grad == compute_grad(optimizing_val, SelectRows(data, <<i>>), SelectRows(outputs, <<i>>))
           dw == VAdd(VScale(grad, opt.mu), VScale(delta_w, opt.alpha))
       IN  /\ log' = Append(log, Call(optimizing_val, <<i>>))
           /\ delta_w' = dw
           /\ optimizing_val' = VSub(optimizing_val, VScale(dw, opt.mu))
    /\ i' = i + 1
    /\ UNCHANGED <<ctor, opt, start, data, outputs, pc, iter, result>>

SGDPassEnd ==
    /\ IsSGD /\ pc = "sgd_inner" /\ i >= Rows(data)
    /\ iter' = iter + 1
    /\ pc' = "sgd_outer"
    /\ UNCHANGED <<ctor, opt, start, data, outputs, optimizing_val, delta_w, i, log, result>>

SGDReturn ==
    /\ IsSGD /\ pc = "sgd_outer" /\ iter >= opt.iters
    /\ result' = optimizing_val
    /\ pc' = "done"
    /\ UNCHANGED <<ctor, opt, start, data, outputs, optimizing_val, delta_w, iter, i, log>>

----------------------------------------------------------------------------
Next ==
    \/ GDBegin
    \/ GDStep
    \/ GDReturn
    \/ SGDSelectPanic
    \/ SGDBootstrap
    \/ SGDPassBegin
    \/ SGDRow
    \/ SGDPassEnd
    \/ SGDReturn

Spec == Init /\ [][Next]_vars

----------------------------------------------------------------------------
(* No product formed by a run loses precision in the fixed-point model:    *)
(* every gradient is a multiple of Den, and StochasticGD's alpha and mu    *)
(* are whole numbers, so every scaled vector is exact.                     *)
FixedPointExact ==
    /\ IsSGD => opt.alpha % Den = 0 /\ opt.mu % Den = 0
    /\ \A k \in 1..Len(delta_w) : IsSGD => delta_w[k] % Den = 0

----------------------------------------------------------------------------
(* Reference computations used by the properties.                          *)

Last(s) == s[Len(s)]

(* The row selected by the k-th compute_grad call of StochasticGD.         *)
Visited == [k \in 1..Len(log) |-> log[k].rows[1]]

(* n passes over the rows 1 .. rows-1, each in ascending order.            *)
RECURSIVE Passes(_, _)
Passes(n, rows) ==
    IF n = 0 THEN <<>> ELSE Passes(n - 1, rows) \o [k \in 1..(rows - 1) |-> k]

IsPrefix(s, t) == Len(s) <= Len(t) /\ \A k \in 1..Len(s) : s[k] = t[k]

(* The gradient the model returns for one recorded call.                   *)
GradOf(call) ==
    compute_grad(call.at, SelectRows(data, call.rows), SelectRows(outputs, call.rows))

(* One full-batch step of size alpha from w.                               *)
BatchStep(w) == VSub(w, VScale(compute_grad(w, data, outputs), opt.alpha))

(* Plain per-row descent: from w0, visit the first n rows of `visits` in   *)
(* order, stepping by `step` times the gradient on the visited row.        *)
RECURSIVE PerRowDescent(_, _, _, _)
PerRowDescent(w0, visits, step, n) ==
    IF n = 0 THEN w0
    ELSE LET w == PerRowDescent(w0, visits, step, n - 1)
             g == compute_grad(w, SelectRows(data, <<visits[n]>>),
                                  SelectRows(outputs, <<visits[n]>>))
         IN  VSub(w, VScale(g, step))

MuSquared == (opt.mu * opt.mu) \div Den

IsZero(v) == \A j \in 1..Len(v) : v[j] = 0

Running == pc \in {"gd_loop", "sgd_outer", "sgd_inner"}

----------------------------------------------------------------------------
(* C1: on a data set with at least one row, a finished call of             *)
(* StochasticGD.optimize has made exactly 1 + iters * (rows - 1) calls to  *)
(* compute_grad, for every iters >= 0 (and never more on the way).         *)
C1_SGDCallCount ==
    (IsSGD /\ Rows(data) >= 1) =>
        /\ Len(log) <= 1 + opt.iters * (Rows(data) - 1)
        /\ pc = "done" => Len(log) = 1 + opt.iters * (Rows(data) - 1)

C1_Witness ==
    /\ IsSGD /\ pc = "done"
    /\ opt.iters = 2 /\ Rows(data) = 3
    /\ Len(log) = 5

(* C2: StochasticGD passes row 0 exactly once, first and at start, then    *)
(* iters times the rows 1, 2, ..., rows-1 in ascending order; row 0 never  *)
(* appears again.  Every call selects a single row.                        *)
C2_SGDRowOrder ==
    IsSGD =>
        /\ \A k \in 1..Len(log) : Len(log[k].rows) = 1
        /\ Len(log) >= 1 => log[1] = Call(start, <<0>>)
        /\ \A k \in 2..Len(log) : Visited[k] # 0
        /\ IsPrefix(Visited, <<0>> \o Passes(opt.iters, Rows(data)))
        /\ pc = "done" => Visited = <<0>> \o Passes(opt.iters, Rows(data))

C2_Witness ==
    /\ IsSGD /\ pc = "done"
    /\ Rows(data) = 3 /\ opt.iters = 2
    /\ Visited = <<0, 1, 2, 1, 2>>

(* C3: GradientDesc.optimize returns only after exactly iters calls to     *)
(* compute_grad; each call is over all rows and at the vector produced by  *)
(* the updates before it (the first at start), each is followed by         *)
(* working = working - alpha * gradient, and the working vector after the  *)
(* last update is what is returned.                                        *)
C3_GDExactIters ==
    IsGD =>
        /\ Len(log) <= opt.iters
        /\ Running => Len(log) = iter
        /\ (Running /\ Len(log) >= 1) =>
              /\ Last(log).rows = AllRows(data)
              /\ optimizing_val = BatchStep(Last(log).at)
        /\ pc = "done" =>
              /\ Len(log) = opt.iters
              /\ \A k \in 1..Len(log) :
                    /\ log[k].rows = AllRows(data)
                    /\ log[k].at = IF k = 1 THEN start ELSE BatchStep(log[k - 1].at)
              /\ result = IF Len(log) = 0 THEN start ELSE BatchStep(Last(log).at)

C3_Witness ==
    /\ IsGD /\ pc = "done" /\ ctor = "new"
    /\ opt.iters = 2 /\ Len(log) = 2
    /\ log[2].at # start
    /\ result # log[2].at

(* C4: GradientDesc with iters = 0 returns start, element for element,     *)
(* having made no call to compute_grad and applied no update.              *)
C4_GDZeroIters ==
    (IsGD /\ opt.iters = 0) =>
        /\ log = <<>>
        /\ Running => optimizing_val = start
        /\ pc = "done" => result = start

C4_Witness ==
    /\ IsGD /\ opt.iters = 0 /\ pc = "done"
    /\ Rows(data) >= 1
    /\ ~ IsZero(compute_grad(start, data, outputs))

(* C5 as stated: with alpha = 0 the result of StochasticGD is the result   *)
(* of a per-row descent with step mu^2 over every row visit, the visit of  *)
(* row 0 included.                                                         *)
C5_AsStated ==
    (IsSGD /\ opt.alpha = 0 /\ pc = "done") =>
        LET visits == <<0>> \o Passes(opt.iters, Rows(data))
        IN  result = PerRowDescent(start, visits, MuSquared, Len(visits))

(* C5 amended: with alpha = 0 the result of StochasticGD is the result of  *)
(* a per-row descent with step mu^2 that starts at start and visits only   *)
(* the rows of the passes (1 .. rows-1, iters times); the bootstrap visit  *)
(* of row 0 applies no update.                                             *)
C5_AlphaZeroPerRow ==
    (IsSGD /\ opt.alpha = 0 /\ pc = "done") =>
        LET visits == Passes(opt.iters, Rows(data))
        IN  result = PerRowDescent(start, visits, MuSquared, Len(visits))

C5_Witness ==
    /\ IsSGD /\ opt.alpha = 0 /\ pc = "done"
    /\ opt.iters = 2 /\ Rows(data) = 3
    /\ ~ IsZero(GradOf(log[1]))
    /\ result # start

(* C6: with gradients of the length of the parameters, the working vector  *)
(* (and the momentum) has the length of start after every update, and the  *)
(* returned vector has the length of start, for both algorithms.           *)
C6_Dimension ==
    /\ (Running \/ pc = "done") => Len(optimizing_val) = Len(start)
    /\ (IsSGD /\ (Running \/ pc = "done")) => Len(delta_w) = Len(start)
    /\ pc = "done" => Len(result) = Len(start)

C6_Witness ==
    /\ pc = "done" /\ Len(start) = 2
    /\ Len(log) >= 3
    /\ Len(result) = 2
    /\ result # start

(* C7: a GradientDesc built by default() has iters = 10000 and             *)
(* alpha = 0.3, and optimize on it makes 10000 gradient evaluations.       *)
C7_DefaultIs10000 ==
    (IsGD /\ ctor = "default") =>
        /\ opt.alpha = 3 /\ Den = 10
        /\ opt.iters = 10000
        /\ pc = "done" => Len(log) = 10000

(* C8: on a data set with zero rows StochasticGD.optimize fails in the     *)
(* selection of row 0, before any gradient evaluation and whatever iters   *)
(* is; it never returns a vector.                                          *)
C8_SGDEmptyData ==
    (IsSGD /\ Rows(data) = 0) =>
        /\ pc \in {"entry", "panicked"}
        /\ log = <<>>
        /\ result = <<>>

C8_Witness ==
    /\ IsSGD /\ Rows(data) = 0 /\ opt.iters = 2
    /\ pc = "panicked"

(* C9: the momentum is set at the bootstrap to gradient * alpha; at every  *)
(* later row visit delta_w = gradient * mu + delta_w * alpha and then      *)
(* working = working - delta_w * mu; no other step changes delta_w, so a   *)
(* pass starts with the delta_w the pass before it left.                   *)
C9_Step ==
    IsSGD =>
        /\ (pc = "entry" /\ pc' = "sgd_outer") =>
              /\ Last(log').at = start
              /\ delta_w' = VScale(GradOf(Last(log')), opt.alpha)
              /\ optimizing_val' = VSub(start, VScale(delta_w', opt.mu))
        /\ (pc # "entry" /\ Len(log') = Len(log) + 1) =>
              /\ Last(log').at = optimizing_val
              /\ delta_w' = VAdd(VScale(GradOf(Last(log')), opt.mu),
                                 VScale(delta_w, opt.alpha))
              /\ optimizing_val' = VSub(optimizing_val, VScale(delta_w', opt.mu))
        /\ (pc # "entry" /\ Len(log') = Len(log)) =>
              /\ delta_w' = delta_w
              /\ optimizing_val' = optimizing_val

C9_Momentum == [][C9_Step]_vars

C9_Witness ==
    /\ IsSGD /\ pc = "sgd_inner"
    /\ iter = 1 /\ i = 2
    /\ opt.alpha # 0
    /\ ~ IsZero(delta_w)
    /\ delta_w # VScale(GradOf(Last(log)), opt.mu)

(* C10: with iters = 0, or with a single row, StochasticGD.optimize still  *)
(* makes the bootstrap call on row 0 at start and returns                  *)
(* start - (alpha * mu) * g0; that is start only when alpha * mu * g0 is   *)
(* the zero vector.                                                        *)
C10_SGDBootstrapOnly ==
    (IsSGD /\ pc = "done" /\ (opt.iters = 0 \/ Rows(data) = 1)) =>
        LET g0 == compute_grad(start, SelectRows(data, <<0>>), SelectRows(outputs, <<0>>))
            shift == VScale(g0, (opt.alpha * opt.mu) \div Den)
        IN  /\ log = <<Call(start, <<0>>)>>
            /\ result = VSub(start, shift)
            /\ (result = start) <=> IsZero(shift)

C10_Witness ==
    /\ IsSGD /\ pc = "done" /\ opt.iters = 0
    /\ Rows(data) = 3
    /\ opt.alpha # 0 /\ opt.alpha # opt.mu
    /\ result # start

====
